---- MODULE Spec2Model ----
(***************************************************************************)
(* Model of raylib/rlgl_utils.go: SetVertexAttributes and glType.          *)
(*                                                                         *)
(* One behaviour is one invocation of SetVertexAttributes[T](vertices,     *)
(* attributes).  The record type T, the number of vertices and the         *)
(* binding list are the inputs, chosen in Init.  The external GPU layer    *)
(* (SetVertexAttribute, EnableVertexAttribute) is modelled as the log of   *)
(* the calls it receives.  Sizes, alignments and field offsets follow the  *)
(* gc toolchain on a 64-bit target.  Every size, length and offset of the  *)
(* model is far below 2^31, so the int32(...) conversions of the code      *)
(* keep their argument and are not written out.                            *)
(***************************************************************************)
EXTENDS Integers, Sequences, FiniteSets, TLC

VARIABLES T, nverts, attributes, pc, idx, stride, calls, err

vars == <<T, nverts, attributes, pc, idx, stride, calls, err>>

(***************************************************************************)
(* Bounds of the input space.                                              *)
(***************************************************************************)
MaxAttrs == 2

(***************************************************************************)
(* reflect.Type values.  A type is its name, its Kind and, per Kind, the   *)
(* array length and element type or the struct fields.  Two types are the  *)
(* same reflect.Type exactly when the records are equal.                   *)
(***************************************************************************)
SupportedKinds ==
    {"Int8", "Uint8", "Int16", "Uint16", "Int32", "Uint32", "Float32", "Float64"}

OtherScalarKinds ==
    {"Int", "Uint", "Int64", "Uint64", "Bool", "String", "Pointer", "Slice"}

Kinds == SupportedKinds \cup OtherScalarKinds \cup {"Array", "Struct"}

Leaf(k) == [name |-> k, kind |-> k, len |-> 0, elem |-> <<>>, fields |-> <<>>]

DefinedType(n, k) == [name |-> n, kind |-> k, len |-> 0, elem |-> <<>>, fields |-> <<>>]

ArrayOf(n, e) == [name |-> "array", kind |-> "Array", len |-> n, elem |-> <<e>>, fields |-> <<>>]

Fld(n, t) == [name |-> n, type |-> t]

StructOf(n, fs) == [name |-> n, kind |-> "Struct", len |-> 0, elem |-> <<>>, fields |-> fs]

(***************************************************************************)
(* GPU element type codes (rlgl data type constants).                      *)
(***************************************************************************)
Byte == 5120
UnsignedByte == 5121
Short == 5122
UnsignedShort == 5123
GLInt == 5124
UnsignedInt == 5125
Float == 5126
Double == 5130

\* a table with the codes of the two 8-bit kinds exchanged
glTypeSwapped(k) ==
    CASE k = "Int8" -> [t |-> UnsignedByte, ok |-> TRUE]
      [] k = "Uint8" -> [t |-> Byte, ok |-> TRUE]
      [] k = "Int16" -> [t |-> Short, ok |-> TRUE]
      [] k = "Uint16" -> [t |-> UnsignedShort, ok |-> TRUE]
      [] k = "Int32" -> [t |-> GLInt, ok |-> TRUE]
      [] k = "Uint32" -> [t |-> UnsignedInt, ok |-> TRUE]
      [] k = "Float32" -> [t |-> Float, ok |-> TRUE]
      [] k = "Float64" -> [t |-> Double, ok |-> TRUE]
      [] OTHER -> [t |-> -1, ok |-> FALSE]

glType(k) ==
    CASE k = "Int8" -> [t |-> Byte, ok |-> TRUE]
      [] k = "Uint8" -> [t |-> UnsignedByte, ok |-> TRUE]
      [] k = "Int16" -> [t |-> Short, ok |-> TRUE]
      [] k = "Uint16" -> [t |-> UnsignedShort, ok |-> TRUE]
      [] k = "Int32" -> [t |-> GLInt, ok |-> TRUE]
      [] k = "Uint32" -> [t |-> UnsignedInt, ok |-> TRUE]
      [] k = "Float32" -> [t |-> Float, ok |-> TRUE]
      [] k = "Float64" -> [t |-> Double, ok |-> TRUE]
      [] OTHER -> [t |-> -1, ok |-> FALSE]

(***************************************************************************)
(* Memory layout: unsafe.Sizeof, reflect.Type.Size and StructField.Offset. *)
(***************************************************************************)
RoundUp(n, a) == ((n + a - 1) \div a) * a

Max(a, b) == IF a >= b THEN a ELSE b

ScalarSize(k) ==
    CASE k \in {"Int8", "Uint8", "Bool"} -> 1
      [] k \in {"Int16", "Uint16"} -> 2
      [] k \in {"Int32", "Uint32", "Float32"} -> 4
      [] k \in {"Int64", "Uint64", "Float64", "Int", "Uint", "Pointer"} -> 8
      [] k = "String" -> 16
      [] k = "Slice" -> 24

ScalarAlign(k) == IF ScalarSize(k) > 8 THEN 8 ELSE ScalarSize(k)

RECURSIVE AlignOf(_)
AlignOf(t) ==
    CASE t.kind = "Array" -> AlignOf(t.elem[1])
      [] t.kind = "Struct" ->
            LET RECURSIVE MaxAlign(_)
                MaxAlign(n) == IF n = 0 THEN 1
                               ELSE Max(MaxAlign(n - 1), AlignOf(t.fields[n].type))
            IN MaxAlign(Len(t.fields))
      [] OTHER -> ScalarAlign(t.kind)

RECURSIVE SizeOf(_)
RECURSIVE FieldOffset(_, _)
FieldOffset(t, n) ==
    IF n = 1 THEN 0
    ELSE RoundUp(FieldOffset(t, n - 1) + SizeOf(t.fields[n - 1].type),
                 AlignOf(t.fields[n].type))

SizeOf(t) ==
    CASE t.kind = "Array" -> t.len * SizeOf(t.elem[1])
      [] t.kind = "Struct" ->
            LET n == Len(t.fields)
                end == IF n = 0 THEN 0
                       ELSE FieldOffset(t, n) + SizeOf(t.fields[n].type)
                padded == IF end > 0 /\ SizeOf(t.fields[n].type) = 0
                          THEN end + 1 ELSE end
            IN RoundUp(padded, AlignOf(t))
      [] OTHER -> ScalarSize(t.kind)

\* t.FieldByName(name): the position of the field, 0 when there is none
FieldByName(t, name) ==
    IF \E n \in 1..Len(t.fields) : t.fields[n].name = name
    THEN CHOOSE n \in 1..Len(t.fields) :
            /\ t.fields[n].name = name
            /\ \A m \in 1..(n - 1) : t.fields[m].name # name
    ELSE 0

(***************************************************************************)
(* The inputs: record types, binding lists.                                *)
(***************************************************************************)
Float32T == Leaf("Float32")
Uint8T == Leaf("Uint8")
MyFloat32 == DefinedType("MyFloat32", "Float32")
Vector2 == StructOf("Vector2", <<Fld("X", Float32T), Fld("Y", Float32T)>>)
Vector3 == StructOf("Vector3", <<Fld("X", Float32T), Fld("Y", Float32T), Fld("Z", Float32T)>>)
Vector4 ==
    StructOf("Vector4", <<Fld("X", Float32T), Fld("Y", Float32T),
                          Fld("Z", Float32T), Fld("W", Float32T)>>)
Color ==
    StructOf("Color", <<Fld("R", Uint8T), Fld("G", Uint8T), Fld("B", Uint8T), Fld("A", Uint8T)>>)

ScalarTypes == {Leaf(k) : k \in SupportedKinds \cup OtherScalarKinds} \cup {MyFloat32}

ArrayTypes ==
    {ArrayOf(0, Float32T), ArrayOf(2, Float32T), ArrayOf(3, Float32T), ArrayOf(4, Uint8T),
     ArrayOf(2, Leaf("Float64")), ArrayOf(3, Leaf("Int16")), ArrayOf(2, MyFloat32),
     ArrayOf(2, Leaf("Int")), ArrayOf(1, Leaf("Int64")), ArrayOf(2, Leaf("Bool")),
     ArrayOf(2, Vector2), ArrayOf(2, ArrayOf(2, Float32T))}

ChildStructTypes ==
    {StructOf("Empty", <<>>), StructOf("One", <<Fld("X", Float32T)>>),
     Vector2, Vector3, Vector4, Color,
     StructOf("Wide", <<Fld("X", Leaf("Float64")), Fld("Y", Leaf("Float64"))>>),
     StructOf("Mixed", <<Fld("X", Float32T), Fld("Y", Uint8T)>>),
     StructOf("MixedLate", <<Fld("X", Float32T), Fld("Y", Float32T), Fld("Z", Leaf("Int32"))>>),
     StructOf("Renamed", <<Fld("X", Float32T), Fld("Y", MyFloat32)>>),
     StructOf("Ints", <<Fld("X", Leaf("Int")), Fld("Y", Leaf("Int"))>>),
     StructOf("LateInt", <<Fld("X", Float32T), Fld("Y", Leaf("Int"))>>),
     StructOf("Nested", <<Fld("P", Vector2)>>),
     StructOf("Arrays", <<Fld("P", ArrayOf(2, Float32T))>>)}

FieldTypes == ScalarTypes \cup ArrayTypes \cup ChildStructTypes

LeadTypes == {Uint8T, Float32T}

StructRecordTypes ==
    {StructOf("Vertex", <<>>)}
      \cup {StructOf("Vertex", <<Fld("A", a)>>) : a \in FieldTypes}
      \cup {StructOf("Vertex", <<Fld("A", a), Fld("B", b)>>) : a \in LeadTypes, b \in FieldTypes}

ArrayRecordTypes ==
    {ArrayOf(n, Leaf(k)) : n \in {0, 2}, k \in SupportedKinds \cup OtherScalarKinds}
      \cup ArrayTypes

\* the vertex types of examples/others/rlgl_vertex_buffer
QuadVertex == StructOf("QuadVertex", <<Fld("Pos", Vector3), Fld("Tex", Vector2)>>)

TriangleVertex ==
    StructOf("TriangleVertex", <<Fld("Pos", Vector3), Fld("Tex", Vector2), Fld("Color", Vector4)>>)

OtherRecordTypes == {Float32T, Leaf("Int"), Leaf("Slice"), Leaf("String"), Leaf("Pointer")}

RecordTypes ==
    StructRecordTypes \cup {QuadVertex, TriangleVertex} \cup ArrayRecordTypes
      \cup OtherRecordTypes

\* the selectors tried against a record type: its field names and one that is no
\* field; two different ones for a record type that has no fields to name
Selectors(t) ==
    {t.fields[n].name : n \in 1..Len(t.fields)} \cup {"Z"}
      \cup (IF t.kind = "Struct" THEN {} ELSE {"A"})

\* the attribute index and normalized flag of a binding: passed on as they are
Slots == {[Attribute |-> 0, Normalized |-> FALSE], [Attribute |-> 1, Normalized |-> TRUE]}

VertexAttributesConfig(t) ==
    {[Field |-> f, Attribute |-> s.Attribute, Normalized |-> s.Normalized] :
        f \in Selectors(t), s \in Slots}

BindingLists(t) ==
    UNION {[1..n -> VertexAttributesConfig(t)] : n \in 0..MaxAttrs}

(***************************************************************************)
(* The GPU layer: the log of the calls it received.                        *)
(***************************************************************************)
SetVertexAttribute(index, compSize, type, normalized, strd, offset) ==
    [op |-> "SetVertexAttribute", index |-> index, compSize |-> compSize, type |-> type,
     normalized |-> normalized, stride |-> strd, offset |-> offset]

EnableVertexAttribute(index) ==
    [op |-> "EnableVertexAttribute", index |-> index, compSize |-> 0, type |-> 0,
     normalized |-> FALSE, stride |-> 0, offset |-> 0]

EmitEnableFirst(attr, components, attrType, offset) ==
    calls' = calls \o <<EnableVertexAttribute(attr.Attribute),
                        SetVertexAttribute(attr.Attribute, components, attrType,
                                           attr.Normalized, stride, offset)>>

\* the two calls every successful binding entry makes
Emit(attr, components, attrType, offset) ==
    calls' = calls \o <<SetVertexAttribute(attr.Attribute, components, attrType,
                                           attr.Normalized, stride, offset),
                        EnableVertexAttribute(attr.Attribute)>>

Init ==
    /\ T \in RecordTypes
    /\ nverts \in {0, 1}
    /\ attributes \in BindingLists(T)
    /\ pc = "start"
    /\ idx = 0
    /\ stride = 0
    /\ calls = <<>>
    /\ err = "none"

Panic(msg) ==
    /\ pc' = "panic"
    /\ err' = msg

\* unsafe.Sizeof(vertices): the size of the slice header
StrideOfSliceHeader == ScalarSize("Slice")

\* the record size taken at the top of the call
Stride == SizeOf(T)

\* len(vertices) == 0: return
EmptyReturn ==
    /\ pc = "start"
    /\ nverts = 0
    /\ pc' = "done"
    /\ UNCHANGED <<T, nverts, attributes, idx, stride, calls, err>>

UnsupportedRecordAnyLen ==
    /\ pc = "start"
    /\ T.kind \notin {"Array", "Struct"}
    /\ stride' = Stride
    /\ Panic("UnsupportedRecordShape")
    /\ UNCHANGED <<T, nverts, attributes, idx, calls>>

\* switch kind, default: neither an array nor a struct
UnsupportedRecord ==
    /\ pc = "start"
    /\ nverts # 0
    /\ T.kind \notin {"Array", "Struct"}
    /\ stride' = Stride
    /\ Panic("UnsupportedRecordShape")
    /\ UNCHANGED <<T, nverts, attributes, idx, calls>>

\* a variant that looks at the element type only once a binding is at hand
ArrayBackingUnsupportedInLoop ==
    /\ pc = "start"
    /\ nverts # 0
    /\ T.kind = "Array"
    /\ ~glType(T.elem[1].kind).ok
    /\ Len(attributes) > 0
    /\ stride' = Stride
    /\ Panic("UnsupportedPrimitiveType")
    /\ UNCHANGED <<T, nverts, attributes, idx, calls>>

\* case reflect.Array, element type has no GL type
ArrayBackingUnsupported ==
    /\ pc = "start"
    /\ nverts # 0
    /\ T.kind = "Array"
    /\ ~glType(T.elem[1].kind).ok
    /\ stride' = Stride
    /\ Panic("UnsupportedPrimitiveType")
    /\ UNCHANGED <<T, nverts, attributes, idx, calls>>

\* case reflect.Array, element type is a primitive: enter the loop
ArrayEnter ==
    /\ pc = "start"
    /\ nverts # 0
    /\ T.kind = "Array"
    /\ glType(T.elem[1].kind).ok
    /\ stride' = Stride
    /\ pc' = "array"
    /\ UNCHANGED <<T, nverts, attributes, idx, calls, err>>

\* a variant that steps the offset by the size of the whole array
ArrayAttributeStrideOffset ==
    /\ pc = "array"
    /\ idx < Len(attributes)
    /\ Emit(attributes[idx + 1], T.len, glType(T.elem[1].kind).t, idx * stride)
    /\ idx' = idx + 1
    /\ UNCHANGED <<T, nverts, attributes, pc, stride, err>>

\* one iteration of the loop over attributes, array-backed record
ArrayAttribute ==
    /\ pc = "array"
    /\ idx < Len(attributes)
    /\ LET attr == attributes[idx + 1]
           attrType == glType(T.elem[1].kind).t
           components == T.len
           attributeSize == SizeOf(T.elem[1])
           offset == idx * attributeSize
       IN Emit(attr, components, attrType, offset)
    /\ idx' = idx + 1
    /\ UNCHANGED <<T, nverts, attributes, pc, stride, err>>

\* a variant that validates every field of the record before the loop
StructEnterCheckingEveryField ==
    /\ pc = "start"
    /\ nverts # 0
    /\ T.kind = "Struct"
    /\ stride' = Stride
    /\ IF \E f \in 1..Len(T.fields) : T.fields[f].type.kind \in OtherScalarKinds
       THEN Panic("UnsupportedPrimitiveType")
       ELSE pc' = "struct" /\ UNCHANGED err
    /\ UNCHANGED <<T, nverts, attributes, idx, calls>>

\* case reflect.Struct: enter the loop
StructEnter ==
    /\ pc = "start"
    /\ nverts # 0
    /\ T.kind = "Struct"
    /\ stride' = Stride
    /\ pc' = "struct"
    /\ UNCHANGED <<T, nverts, attributes, idx, calls, err>>

\* the field the current binding names: its position in T, 0 when absent
CurField == FieldByName(T, attributes[idx + 1].Field)

CurType == T.fields[CurField].type

\* the sizes of the fields before the current one added up, padding left out
RECURSIVE SizesBefore(_)
SizesBefore(n) == IF n <= 1 THEN 0 ELSE SizesBefore(n - 1) + SizeOf(T.fields[n - 1].type)

CurOffsetPacked == SizesBefore(CurField)

CurOffset == FieldOffset(T, CurField)

InStructLoop ==
    /\ pc = "struct"
    /\ idx < Len(attributes)

\* t.FieldByName fails
UnknownField ==
    /\ InStructLoop
    /\ CurField = 0
    /\ Panic("UnknownField")
    /\ UNCHANGED <<T, nverts, attributes, idx, stride, calls>>

\* the field is a primitive
PrimitiveField ==
    /\ InStructLoop
    /\ CurField # 0
    /\ glType(CurType.kind).ok
    /\ Emit(attributes[idx + 1], 1, glType(CurType.kind).t, CurOffset)
    /\ idx' = idx + 1
    /\ UNCHANGED <<T, nverts, attributes, pc, stride, err>>

\* a variant that passes the byte size of the array as the component count
ArrayFieldByteCount ==
    /\ InStructLoop
    /\ CurField # 0
    /\ ~glType(CurType.kind).ok
    /\ CurType.kind = "Array"
    /\ glType(CurType.elem[1].kind).ok
    /\ Emit(attributes[idx + 1], SizeOf(CurType), glType(CurType.elem[1].kind).t, CurOffset)
    /\ idx' = idx + 1
    /\ UNCHANGED <<T, nverts, attributes, pc, stride, err>>

\* the field is an array of primitives
ArrayField ==
    /\ InStructLoop
    /\ CurField # 0
    /\ ~glType(CurType.kind).ok
    /\ CurType.kind = "Array"
    /\ glType(CurType.elem[1].kind).ok
    /\ Emit(attributes[idx + 1], CurType.len, glType(CurType.elem[1].kind).t,
            CurOffset)
    /\ idx' = idx + 1
    /\ UNCHANGED <<T, nverts, attributes, pc, stride, err>>

\* the field is an array whose element type has no GL type
ArrayFieldUnsupported ==
    /\ InStructLoop
    /\ CurField # 0
    /\ ~glType(CurType.kind).ok
    /\ CurType.kind = "Array"
    /\ ~glType(CurType.elem[1].kind).ok
    /\ Panic("UnsupportedPrimitiveType")
    /\ UNCHANGED <<T, nverts, attributes, idx, stride, calls>>

IsChildStruct ==
    /\ InStructLoop
    /\ CurField # 0
    /\ ~glType(CurType.kind).ok
    /\ CurType.kind = "Struct"

\* the child struct has no fields
ChildStructEmpty ==
    /\ IsChildStruct
    /\ Len(CurType.fields) = 0
    /\ Panic("EmptyAggregate")
    /\ UNCHANGED <<T, nverts, attributes, idx, stride, calls>>

\* the first field of the child struct is no primitive
ChildStructNotPrimitive ==
    /\ IsChildStruct
    /\ Len(CurType.fields) # 0
    /\ ~glType(CurType.fields[1].type.kind).ok
    /\ Panic("ChildNotPrimitive")
    /\ UNCHANGED <<T, nverts, attributes, idx, stride, calls>>

\* a comparison of the Kind of the fields in place of their reflect.Type
SameKindEveryField(t) ==
    \A n \in 2..Len(t.fields) : t.fields[n].type.kind = t.fields[1].type.kind

\* for i := 1; i < NumField; i++ { prevType != Field(i).Type }
SameTypeEveryField(t) ==
    \A n \in 2..Len(t.fields) : t.fields[n].type = t.fields[1].type

\* some field of the child struct differs in type from the first
ChildStructMixed ==
    /\ IsChildStruct
    /\ Len(CurType.fields) # 0
    /\ glType(CurType.fields[1].type.kind).ok
    /\ ~SameTypeEveryField(CurType)
    /\ Panic("HeterogeneousAggregate")
    /\ UNCHANGED <<T, nverts, attributes, idx, stride, calls>>

\* a variant that passes the offset of the child's first field within the child
ChildStructFieldInnerOffset ==
    /\ IsChildStruct
    /\ Len(CurType.fields) # 0
    /\ glType(CurType.fields[1].type.kind).ok
    /\ SameTypeEveryField(CurType)
    /\ Emit(attributes[idx + 1], Len(CurType.fields),
            glType(CurType.fields[1].type.kind).t, FieldOffset(CurType, 1))
    /\ idx' = idx + 1
    /\ UNCHANGED <<T, nverts, attributes, pc, stride, err>>

\* the field is a struct of one primitive type
ChildStructField ==
    /\ IsChildStruct
    /\ Len(CurType.fields) # 0
    /\ glType(CurType.fields[1].type.kind).ok
    /\ SameTypeEveryField(CurType)
    /\ Emit(attributes[idx + 1], Len(CurType.fields),
            glType(CurType.fields[1].type.kind).t, CurOffset)
    /\ idx' = idx + 1
    /\ UNCHANGED <<T, nverts, attributes, pc, stride, err>>

\* the field is none of these: the switch on its kind has no case for it and
\* the loop goes on to the next binding
OtherField ==
    /\ InStructLoop
    /\ CurField # 0
    /\ ~glType(CurType.kind).ok
    /\ CurType.kind \notin {"Array", "Struct"}
    /\ idx' = idx + 1
    /\ UNCHANGED <<T, nverts, attributes, pc, stride, calls, err>>

\* the loop over attributes is exhausted: return
Return ==
    /\ pc \in {"array", "struct"}
    /\ idx = Len(attributes)
    /\ pc' = "done"
    /\ UNCHANGED <<T, nverts, attributes, idx, stride, calls, err>>

Next ==
    \/ EmptyReturn
    \/ UnsupportedRecord
    \/ ArrayBackingUnsupported
    \/ ArrayEnter
    \/ ArrayAttribute
    \/ StructEnter
    \/ UnknownField
    \/ PrimitiveField
    \/ ArrayField
    \/ ArrayFieldUnsupported
    \/ ChildStructEmpty
    \/ ChildStructNotPrimitive
    \/ ChildStructMixed
    \/ ChildStructField
    \/ OtherField
    \/ Return

Spec == Init /\ [][Next]_vars

(***************************************************************************)
(* Vocabulary of the properties.                                           *)
(***************************************************************************)
StructBacked == T.kind = "Struct"

ArrayBacked == T.kind = "Array"

Entries == 1..Len(attributes)

\* entries 1..idx have been gone through without a failure
Processed == 1..idx

Named(n) == FieldByName(T, attributes[n].Field)

NamedType(n) == T.fields[Named(n)].type

NamesField(n) == StructBacked /\ Named(n) # 0

PrimitiveEntry(n) == NamesField(n) /\ NamedType(n).kind \in SupportedKinds

ArrayEntry(n) == NamesField(n) /\ NamedType(n).kind = "Array"

ChildEntry(n) == NamesField(n) /\ NamedType(n).kind = "Struct"

\* the field exists and is no supported primitive, no array and no struct
OtherEntry(n) ==
    NamesField(n) /\ NamedType(n).kind \notin SupportedKinds \cup {"Array", "Struct"}

IsSet(c) == c.op = "SetVertexAttribute"

IsEnable(c) == c.op = "EnableVertexAttribute"

SetCalls == {k \in 1..Len(calls) : IsSet(calls[k])}

\* the number of entries among 1..n that are not of the OtherEntry shape
RECURSIVE Emitting(_)
Emitting(n) ==
    IF n = 0 THEN 0
    ELSE Emitting(n - 1) + (IF OtherEntry(n) THEN 0 ELSE 1)

\* where in the log the set-pointer call of processed entry n is
SetPos(n) == 2 * Emitting(n) - 1

Completed == pc = "done"

Failed == pc = "panic"

(***************************************************************************)
(* C1: with an empty vertex sequence the call returns at once, for every   *)
(* record type and every binding list: no GPU call is made and nothing     *)
(* fails.                                                                  *)
(***************************************************************************)
C1_EmptyIsNoop ==
    nverts = 0 =>
        /\ calls = <<>>
        /\ err = "none"
        /\ pc \in {"start", "done"}
        /\ pc = "start" => ENABLED EmptyReturn

\* an empty call has returned, on a record type a non-empty call rejects and
\* with bindings that name no field
C1_Witness ==
    /\ nverts = 0
    /\ Completed
    /\ T.kind \notin {"Array", "Struct"}
    /\ Len(attributes) = MaxAttrs
    /\ \A n \in Entries : attributes[n].Field = "Z"

(***************************************************************************)
(* C2: at every point of every invocation the log of GPU calls is a        *)
(* sequence of pairs, set-pointer for index a then enable for the same a,  *)
(* one pair per entry that emitted, in the order of the entries.           *)
(***************************************************************************)
C2_PairsInOrder ==
    /\ Len(calls) = 2 * Emitting(idx)
    /\ \A j \in 1..Len(calls) :
          IF j % 2 = 1
          THEN /\ IsSet(calls[j])
               /\ j + 1 <= Len(calls)
               /\ IsEnable(calls[j + 1])
               /\ calls[j + 1].index = calls[j].index
          ELSE IsEnable(calls[j])
    /\ \A n \in Processed :
          ~OtherEntry(n) =>
              /\ calls[SetPos(n)].index = attributes[n].Attribute
              /\ calls[SetPos(n)].normalized = attributes[n].Normalized

\* an invocation that aborted at its second entry, after the first one emitted
C2_Witness ==
    /\ Failed
    /\ idx = 1
    /\ Len(calls) = 2

(***************************************************************************)
(* C3: a call with a non-empty vertex sequence that returns without        *)
(* failure has made two GPU calls for every entry of the binding list.     *)
(***************************************************************************)
C3_TwoCallsPerEntry ==
    (Completed /\ nverts # 0) => Len(calls) = 2 * Len(attributes)

(***************************************************************************)
(* C4: on the struct-backed path a binding whose field exists but is no    *)
(* supported primitive, no array and no struct makes the call fail, with   *)
(* no GPU call for that entry: the loop never gets past such an entry and  *)
(* the call never returns normally.                                        *)
(***************************************************************************)
C4_OtherFieldFails ==
    (nverts # 0 /\ StructBacked) =>
        \A n \in Entries : OtherEntry(n) => (idx < n /\ ~Completed)

(***************************************************************************)
(* C5 as stated: a non-empty call on a struct-backed record that contains  *)
(* a field of unsupported primitive type fails, also when no binding       *)
(* names that field.                                                       *)
(***************************************************************************)
UnsupportedPrimitiveFields ==
    {f \in 1..Len(T.fields) :
        T.fields[f].type.kind \in {"Int", "Uint", "Int64", "Uint64", "Bool"}}

C5_UnsupportedAnywhereFails ==
    (nverts # 0 /\ StructBacked /\ UnsupportedPrimitiveFields # {}) => ~Completed

\* the field entry n names can be bound: a supported primitive, an array of one,
\* or a struct with at least one field, all of one supported primitive type
Bindable(n) ==
    \/ PrimitiveEntry(n)
    \/ ArrayEntry(n) /\ NamedType(n).elem[1].kind \in SupportedKinds
    \/ /\ ChildEntry(n)
       /\ Len(NamedType(n).fields) > 0
       /\ NamedType(n).fields[1].type.kind \in SupportedKinds
       /\ \A m \in 1..Len(NamedType(n).fields) :
             NamedType(n).fields[m].type = NamedType(n).fields[1].type

(***************************************************************************)
(* C5 as amended: only the fields that binding entries name are examined.  *)
(* A non-empty call on a struct-backed record all of whose named fields    *)
(* can be bound never fails and returns after two GPU calls per entry,     *)
(* whatever the types of the fields no entry names.                        *)
(***************************************************************************)
C5_OnlyNamedFieldsExamined ==
    (nverts # 0 /\ StructBacked /\ \A n \in Entries : Bindable(n)) =>
        /\ ~Failed
        /\ Completed => Len(calls) = 2 * Len(attributes)
        /\ ~Completed => ENABLED Next

\* a call returned normally, with GPU calls made, on a record that has a field of
\* unsupported primitive type that no entry names
C5_Witness ==
    /\ nverts # 0
    /\ StructBacked
    /\ Completed
    /\ calls # <<>>
    /\ \E f \in UnsupportedPrimitiveFields :
          \A n \in Entries : attributes[n].Field # T.fields[f].name

(***************************************************************************)
(* C6: every set-pointer call of one invocation carries the same stride,   *)
(* the byte size of one vertex record, on both paths and whatever the      *)
(* entry or the field.                                                     *)
(***************************************************************************)
C6_StrideIsRecordSize ==
    \A k \in SetCalls :
        /\ calls[k].stride = SizeOf(T)
        /\ calls[k].stride = stride
        /\ T = TriangleVertex => calls[k].stride = 36
        /\ T = QuadVertex => calls[k].stride = 20
        /\ T = ArrayOf(2, Float32T) => calls[k].stride = 8
        /\ T = ArrayOf(3, Leaf("Int16")) => calls[k].stride = 6
        /\ T = StructOf("Vertex", <<Fld("A", Uint8T), Fld("B", Float32T)>>)
              => calls[k].stride = 8
        /\ T = StructOf("Vertex", <<Fld("A", Float32T), Fld("B", Leaf("Float64"))>>)
              => calls[k].stride = 16
        /\ T = StructOf("Vertex", <<Fld("A", Float32T), Fld("B", Color)>>)
              => calls[k].stride = 8

\* two set-pointer calls for two fields of different shape and offset
C6_Witness ==
    /\ StructBacked
    /\ Len(calls) = 4
    /\ calls[1].compSize # calls[3].compSize
    /\ calls[1].offset # calls[3].offset
    /\ calls[1].stride = calls[3].stride

(***************************************************************************)
(* C7: glType maps exactly the eight supported kinds to their GPU codes    *)
(* and reports every other kind as not found; the codes the array-backed   *)
(* path and the struct-backed path pass on are the codes of this table,    *)
(* and an array-backed call fails exactly when the table has no entry.     *)
(***************************************************************************)
ClaimedTable ==
    ("Int8" :> Byte) @@ ("Uint8" :> UnsignedByte) @@ ("Int16" :> Short)
      @@ ("Uint16" :> UnsignedShort) @@ ("Int32" :> GLInt) @@ ("Uint32" :> UnsignedInt)
      @@ ("Float32" :> Float) @@ ("Float64" :> Double)

C7_glTypeTable ==
    /\ \A k \in Kinds :
          IF k \in DOMAIN ClaimedTable
          THEN glType(k) = [t |-> ClaimedTable[k], ok |-> TRUE]
          ELSE ~glType(k).ok
    /\ (ArrayBacked /\ nverts # 0 /\ pc # "start") =>
          /\ Failed <=> T.elem[1].kind \notin DOMAIN ClaimedTable
          /\ \A k \in SetCalls : calls[k].type = ClaimedTable[T.elem[1].kind]
    /\ \A n \in Processed :
          /\ PrimitiveEntry(n) => calls[SetPos(n)].type = ClaimedTable[NamedType(n).kind]
          /\ ArrayEntry(n) => calls[SetPos(n)].type = ClaimedTable[NamedType(n).elem[1].kind]
          /\ ChildEntry(n) =>
                calls[SetPos(n)].type = ClaimedTable[NamedType(n).fields[1].type.kind]

\* a struct-backed call returned after binding a uint16 field and a float32 field
C7_Witness ==
    /\ StructBacked
    /\ Completed
    /\ Len(calls) = 4
    /\ NamedType(1).kind = "Uint16" /\ calls[1].type = UnsignedShort
    /\ NamedType(2).kind = "Float32" /\ calls[3].type = Float

(***************************************************************************)
(* C8: on the struct-backed path a binding whose field is a supported      *)
(* primitive is never the entry that fails, and its set-pointer call has   *)
(* one component, the GPU code of the primitive, the byte offset of the    *)
(* field in the record and the binding's index and normalized flag.        *)
(***************************************************************************)
ScalarPair == StructOf("Vertex", <<Fld("A", Float32T), Fld("B", Uint8T)>>)

C8_PrimitiveField ==
    /\ \A n \in Processed :
          PrimitiveEntry(n) =>
              LET c == calls[SetPos(n)]
              IN /\ c.compSize = 1
                 /\ c.type = glType(NamedType(n).kind).t
                 /\ c.offset = FieldOffset(T, Named(n))
                 /\ c.index = attributes[n].Attribute
                 /\ c.normalized = attributes[n].Normalized
                 /\ T = StructOf("Vertex", <<Fld("A", Uint8T), Fld("B", Float32T)>>)
                       => c.offset = (IF Named(n) = 1 THEN 0 ELSE 4)
                 /\ T = StructOf("Vertex", <<Fld("A", Uint8T), Fld("B", Leaf("Int16"))>>)
                       => c.offset = (IF Named(n) = 1 THEN 0 ELSE 2)
                 /\ T = StructOf("Vertex", <<Fld("A", Float32T), Fld("B", Leaf("Float64"))>>)
                       => c.offset = (IF Named(n) = 1 THEN 0 ELSE 8)
    /\ (pc = "struct" /\ idx < Len(attributes) /\ PrimitiveEntry(idx + 1))
          => ENABLED PrimitiveField
    /\ (Failed /\ StructBacked /\ idx < Len(attributes)) => ~PrimitiveEntry(idx + 1)
    /\ ( /\ T = ScalarPair
         /\ Completed
         /\ nverts # 0
         /\ attributes = <<[Field |-> "A", Attribute |-> 0, Normalized |-> FALSE],
                            [Field |-> "B", Attribute |-> 1, Normalized |-> TRUE]>> )
          => calls = <<SetVertexAttribute(0, 1, Float, FALSE, 8, 0),
                       EnableVertexAttribute(0),
                       SetVertexAttribute(1, 1, UnsignedByte, TRUE, 8, 4),
                       EnableVertexAttribute(1)>>

\* the record {A: float32, B: uint8} bound with [(A, 0), (B, 1)]
C8_Witness ==
    /\ T = ScalarPair
    /\ Completed
    /\ Len(calls) = 4
    /\ attributes[1].Field = "A" /\ attributes[1].Attribute = 0
    /\ attributes[2].Field = "B" /\ attributes[2].Attribute = 1

(***************************************************************************)
(* C9: on the struct-backed path a binding whose field is a fixed-size     *)
(* array of a supported primitive gets a set-pointer call with the array   *)
(* length as component count, the GPU code of the element primitive and    *)
(* the byte offset of the field; if the element type is no supported       *)
(* primitive the call fails at that entry, with no GPU call for it.        *)
(***************************************************************************)
C9_ArrayField ==
    \A n \in Entries :
        (nverts # 0 /\ ArrayEntry(n)) =>
            IF NamedType(n).elem[1].kind \in SupportedKinds
            THEN /\ n \in Processed =>
                      LET c == calls[SetPos(n)]
                      IN /\ c.compSize = NamedType(n).len
                         /\ c.type = glType(NamedType(n).elem[1].kind).t
                         /\ c.offset = FieldOffset(T, Named(n))
                         /\ ( /\ T.fields[1].type = Uint8T
                              /\ Named(n) = 2
                              /\ NamedType(n) = ArrayOf(3, Float32T) )
                               => (c.compSize = 3 /\ c.type = Float /\ c.offset = 4)
                 /\ (pc = "struct" /\ idx = n - 1) => ENABLED ArrayField
                 /\ Failed => idx # n - 1
            ELSE /\ idx < n
                 /\ ~Completed
                 /\ Len(calls) <= 2 * (n - 1)
                 /\ (pc = "struct" /\ idx = n - 1) => ENABLED ArrayFieldUnsupported
                 /\ (Failed /\ idx = n - 1) => err = "UnsupportedPrimitiveType"

\* a float32[3] field behind a one-byte field has been bound
C9_Witness ==
    /\ StructBacked
    /\ Completed
    /\ \E n \in Processed :
          /\ ArrayEntry(n)
          /\ NamedType(n) = ArrayOf(3, Float32T)
          /\ calls[SetPos(n)].offset = 4

(***************************************************************************)
(* C10: on the struct-backed path a binding whose field is a struct with   *)
(* at least one member, all members of one supported primitive type, gets  *)
(* a set-pointer call with the number of members as component count, the   *)
(* GPU code of that primitive and the byte offset of the field in the      *)
(* parent record; a struct with no members fails the call at that entry.   *)
(***************************************************************************)
C10_ChildStruct ==
    \A n \in Entries :
        (nverts # 0 /\ ChildEntry(n)) =>
            IF Len(NamedType(n).fields) = 0
            THEN /\ idx < n
                 /\ ~Completed
                 /\ Len(calls) <= 2 * (n - 1)
                 /\ (pc = "struct" /\ idx = n - 1) => ENABLED ChildStructEmpty
                 /\ (Failed /\ idx = n - 1) => err = "EmptyAggregate"
            ELSE Bindable(n) =>
                 /\ n \in Processed =>
                      LET c == calls[SetPos(n)]
                      IN /\ c.compSize = Len(NamedType(n).fields)
                         /\ c.type = glType(NamedType(n).fields[1].type.kind).t
                         /\ c.offset = FieldOffset(T, Named(n))
                         /\ (T = TriangleVertex /\ attributes[n].Field = "Pos")
                               => (c.compSize = 3 /\ c.type = Float /\ c.offset = 0)
                         /\ (T = TriangleVertex /\ attributes[n].Field = "Tex")
                               => (c.compSize = 2 /\ c.type = Float /\ c.offset = 12)
                         /\ (T = TriangleVertex /\ attributes[n].Field = "Color")
                               => (c.compSize = 4 /\ c.type = Float /\ c.offset = 20)
                 /\ (pc = "struct" /\ idx = n - 1) => ENABLED ChildStructField
                 /\ Failed => idx # n - 1

\* the triangle vertex of the example bound on Tex and Color
C10_Witness ==
    /\ T = TriangleVertex
    /\ Completed
    /\ Len(calls) = 4
    /\ attributes[1].Field = "Tex"
    /\ attributes[2].Field = "Color"

(***************************************************************************)
(* C11: on the struct-backed path a binding whose field is a struct whose  *)
(* first member is a supported primitive and some member of which has a    *)
(* type other than the first member's makes the call fail at that entry    *)
(* (HeterogeneousAggregate): the loop never gets past the entry, the call  *)
(* never returns normally, and neither that entry nor a later one adds a   *)
(* GPU call.                                                               *)
(***************************************************************************)
MixedChildEntry(n) ==
    /\ ChildEntry(n)
    /\ Len(NamedType(n).fields) > 0
    /\ NamedType(n).fields[1].type.kind \in SupportedKinds
    /\ \E m \in 1..Len(NamedType(n).fields) :
          NamedType(n).fields[m].type # NamedType(n).fields[1].type

C11_MixedChildFails ==
    \A n \in Entries :
        (nverts # 0 /\ MixedChildEntry(n)) =>
            /\ idx < n
            /\ ~Completed
            /\ Len(calls) <= 2 * (n - 1)
            /\ (pc = "struct" /\ idx = n - 1) => ENABLED ChildStructMixed
            /\ (Failed /\ idx = n - 1) => err = "HeterogeneousAggregate"

\* the call failed at its first entry, a struct of float32 and uint8, and the
\* second entry, which could have been bound, made no GPU call
C11_Witness ==
    /\ Failed
    /\ err = "HeterogeneousAggregate"
    /\ idx = 0
    /\ calls = <<>>
    /\ Len(attributes) = 2
    /\ NamedType(1).fields[2].type = Uint8T
    /\ Bindable(2)

(***************************************************************************)
(* C12: on the struct-backed path, when the call fails at entry k because  *)
(* that entry names no field of the record (UnknownField), no GPU call     *)
(* has been made for entry k and the log holds exactly the (set-pointer,   *)
(* enable) pairs of the entries before k, one pair for each of them.       *)
(***************************************************************************)
C12_UnknownFieldKeepsEarlierPairs ==
    \A n \in Entries :
        (nverts # 0 /\ StructBacked /\ Named(n) = 0 /\ idx = n - 1 /\ pc # "start") =>
            /\ (ENABLED UnknownField) \/ (Failed /\ err = "UnknownField")
            /\ Len(calls) = 2 * (n - 1)
            /\ \A m \in 1..(n - 1) :
                  /\ IsSet(calls[2 * m - 1])
                  /\ calls[2 * m - 1].index = attributes[m].Attribute
                  /\ IsEnable(calls[2 * m])
                  /\ calls[2 * m].index = attributes[m].Attribute

(***************************************************************************)
(* C13: on the array-backed path with a supported element primitive the    *)
(* call never fails and entry i (counted from 0) gets the set-pointer call *)
(* (Attribute, array length, GPU code of the element, Normalized, stride,  *)
(* i * element size) followed by enable(Attribute); the Field of the       *)
(* binding appears in none of the arguments.  For float32[2] the offsets   *)
(* of two bindings are 0 and 4.                                            *)
(***************************************************************************)
C13_ArrayBackedByPosition ==
    (nverts # 0 /\ ArrayBacked /\ T.elem[1].kind \in SupportedKinds) =>
        /\ ~Failed
        /\ Len(calls) = 2 * idx
        /\ Completed => idx = Len(attributes)
        /\ (pc = "array" /\ idx < Len(attributes)) => ENABLED ArrayAttribute
        /\ \A n \in Processed :
              /\ calls[2 * n - 1] =
                    SetVertexAttribute(attributes[n].Attribute, T.len,
                                       ClaimedTable[T.elem[1].kind],
                                       attributes[n].Normalized, SizeOf(T),
                                       (n - 1) * ScalarSize(T.elem[1].kind))
              /\ calls[2 * n] = EnableVertexAttribute(attributes[n].Attribute)
              /\ T = ArrayOf(2, Float32T) =>
                    (calls[2 * n - 1].offset = 4 * (n - 1) /\ calls[2 * n - 1].compSize = 2)

\* float32[2] records bound twice, with two different selectors
C13_Witness ==
    /\ T = ArrayOf(2, Float32T)
    /\ Completed
    /\ Len(calls) = 4
    /\ attributes[1].Field # attributes[2].Field
    /\ calls[1].offset = 0
    /\ calls[3].offset = 4

(***************************************************************************)
(* C14: a call with a non-empty vertex sequence whose record type is       *)
(* neither an array nor a struct, or is an array of an element type that   *)
(* is no supported primitive, fails before any GPU call, whatever the      *)
(* binding list, the empty one included.                                   *)
(***************************************************************************)
RejectedShape ==
    \/ T.kind \notin {"Array", "Struct"}
    \/ T.kind = "Array" /\ T.elem[1].kind \notin SupportedKinds

C14_RejectedShapeFailsFirst ==
    (nverts # 0 /\ RejectedShape) =>
        /\ calls = <<>>
        /\ pc \in {"start", "panic"}
        /\ pc = "start" => ENABLED (UnsupportedRecord \/ ArrayBackingUnsupported)
        /\ Failed =>
              err = (IF ArrayBacked THEN "UnsupportedPrimitiveType"
                     ELSE "UnsupportedRecordShape")

\* an array of int records was rejected with an empty binding list
C14_Witness ==
    /\ Failed
    /\ T = ArrayOf(2, Leaf("Int"))
    /\ attributes = <<>>
    /\ calls = <<>>

\* the byte size of one element of a GPU element type
BytesOf(code) ==
    CASE code \in {Byte, UnsignedByte} -> 1
      [] code \in {Short, UnsignedShort} -> 2
      [] code \in {GLInt, UnsignedInt, Float} -> 4
      [] code = Double -> 8

\* the first byte past the ones a set-pointer call describes in one record
EndOf(c) == c.offset + c.compSize * BytesOf(c.type)

(***************************************************************************)
(* C15 as stated: every set-pointer call describes bytes inside one vertex *)
(* record, offset + components * element size <= stride, on both paths;    *)
(* stated here of the calls that have at least one component.              *)
(***************************************************************************)
C15_WithinRecord ==
    \A k \in SetCalls :
        calls[k].compSize >= 1 => EndOf(calls[k]) <= calls[k].stride

(***************************************************************************)
(* C15 as amended: every set-pointer call of the struct-backed path        *)
(* describes bytes inside one vertex record.  On the array-backed path the *)
(* call of entry i (counted from 0) describes the stride bytes that start  *)
(* at i * element size, which lie inside the record for the first entry    *)
(* only.                                                                   *)
(***************************************************************************)
C15_WithinRecordOnStructPath ==
    \A k \in SetCalls :
        /\ StructBacked => EndOf(calls[k]) <= calls[k].stride
        /\ ArrayBacked =>
              /\ EndOf(calls[k]) = calls[k].offset + calls[k].stride
              /\ calls[k].offset = ((k - 1) \div 2) * ScalarSize(T.elem[1].kind)
              /\ EndOf(calls[k]) <= calls[k].stride <=> k = 1

\* an array-backed call returned after two bindings: the first describes the whole
\* record, the second runs past its end
C15_Witness ==
    /\ ArrayBacked
    /\ Completed
    /\ Len(calls) = 4
    /\ EndOf(calls[1]) = calls[1].stride
    /\ EndOf(calls[3]) > calls[3].stride

(***************************************************************************)
(* C16: every set-pointer call has a component count of at least 1: an     *)
(* empty nested struct, a zero-length array field and an array-backed      *)
(* record of length zero never reach the GPU layer.                        *)
(***************************************************************************)
C16_AtLeastOneComponent ==
    \A k \in SetCalls : calls[k].compSize >= 1

====
